---- MODULE Spec2Model ----
(***************************************************************************)
(* A model of src/app.py, the dividend dashboard.                          *)
(*                                                                         *)
(*   Spec     one script run after another of the two domestic clients:    *)
(*            display_korean_stock_info / get_korean_stock_dividend and    *)
(*            display_korean_etf_info / get_korean_etf_distribution,       *)
(*            with the transport (requests.get / requests.post) as the     *)
(*            environment.                                                 *)
(*   SpecDir  the two cached directory lookups, get_dart_corp_codes and    *)
(*            get_krx_etf_list, called by concurrent sessions through      *)
(*            st.cache_data(ttl=3600).                                     *)
(*                                                                         *)
(* Korean string literals of the source are written in ASCII here; each    *)
(* definition names the source line of the literal it stands for.          *)
(***************************************************************************)
EXTENDS Integers, Sequences, FiniteSets, TLC

VARIABLES
    DART_API_KEY,   \* the module-level credential, os.getenv('DART_API_KEY')
    pc,             \* position of the script run: main, awaiting, responded, returned, shown
    fn,             \* the client function the run is in
    args,           \* the arguments of the client call
    request,        \* the transport request the call has issued, if any
    wire,           \* what the provider has answered to that request
    getCalls,       \* number of requests.get calls made so far
    postCalls,      \* number of requests.post calls made so far
    callsAtEntry,   \* getCalls + postCalls when the client call was entered
    data,           \* first component of the client's return value
    error,          \* second component of the client's return value
    shown,          \* the branch the display_* caller took
    runs,           \* number of script runs started
    dpc,            \* per session: position inside a cached directory lookup
    dfn,            \* per session: the cached function being called
    dresult,        \* per session: the value the cached call returned
    cache,          \* st.cache_data storage, per cached function
    lock,           \* st.cache_data compute lock holder, per cached function
    fetches,        \* per cached function: executions of the function body started
    stores,         \* per cached function: values written to the cache
    expiries,       \* per cached function: cached values that outlived the ttl
    sawStores,      \* per session: stores[dfn] when the call read the cache
    sawValid,       \* per session: whether that read found a live value
    dcalls          \* number of cached calls started

clientVars == <<pc, fn, args, request, wire, getCalls, postCalls, callsAtEntry,
                data, error, shown, runs>>
dirVars == <<dpc, dfn, dresult, cache, lock, fetches, stores, expiries,
             sawStores, sawValid, dcalls>>
vars == <<DART_API_KEY, clientVars, dirVars>>

----------------------------------------------------------------------------
(* Bounds of the model *)

MaxRuns == 2        \* script runs of the client flows
MaxRows == 2        \* rows in a provider's `output` array
MaxDirCalls == 3    \* cached directory calls, over all sessions

----------------------------------------------------------------------------
(* Python values *)

\* Python's None, where the value beside it is a string.
None == "<None>"

\* str(x) inside an f-string: None prints as "None".
Str(x) == IF x = None THEN "None" ELSE x

\* Truthiness of a string-or-None, as in `if error:`.
Truthy(x) == x # None /\ x # ""

\* dict.get(key): the value, or None when the key is absent.
Get(d, k) == IF k \in DOMAIN d THEN d[k] ELSE None

\* `not d.get(key)` for a key holding a list: absent, or an empty list.
NotGetList(d, k) == IF k \in DOMAIN d THEN d[k] = <<>> ELSE TRUE

\* The empty JSON object.
EmptyObj == [k \in {} |-> None]

\* A pandas DataFrame, by its rows; pd.DataFrame() has none.
DataFrame(rows) == [kind |-> "DataFrame", rows |-> rows]
NoData == [kind |-> "None", rows |-> <<>>]
IsEmpty(df) == df.rows = <<>>

\* df.rename(columns=mapping): a column in the mapping takes the mapped name,
\* any other column keeps its own.
RenameColumn(mapping, c) == IF c \in DOMAIN mapping THEN mapping[c] ELSE c

RenameRow(mapping, row) ==
    [c2 \in {RenameColumn(mapping, c) : c \in DOMAIN row} |->
        row[CHOOSE c \in DOMAIN row : RenameColumn(mapping, c) = c2]]

Rename(mapping, rows) == [i \in 1..Len(rows) |-> RenameRow(mapping, rows[i])]

----------------------------------------------------------------------------
(* The transport: requests.get / requests.post and what comes back *)

\* No request issued yet by the current call.
NoRequest == [method |-> "none"]

\* requests.get(url, params=params): no timeout argument is passed, so the
\* request carries requests' default, timeout=None.
RequestsGet(url, params) ==
    [method |-> "GET", url |-> url, params |-> params, timeout |-> None]

\* requests.post(url, headers=headers, data=params): likewise no timeout.
RequestsPost(url, form) ==
    [method |-> "POST", url |-> url, params |-> form, timeout |-> None]

\* The request is out and nothing has come back yet.
Pending == [kind |-> "pending"]

\* The provider never answers this request.
Silent == [kind |-> "silent"]

\* requests.get/post raises, raise_for_status() raises, response.json() raises.
TransportFailures ==
    {[kind |-> k] : k \in {"ConnectionError", "HTTPError", "JSONDecodeError"}}

\* HTTP 200 with a JSON body that is not an object.
JsonArray == [kind |-> "json_array"]

JsonObject(body) == [kind |-> "json_object", body |-> body]

----------------------------------------------------------------------------
(* get_korean_stock_dividend: inputs and provider responses *)

DividendUrl == "https://opendart.fss.or.kr/api/alotMatter.json"

\* Company codes of length 0, 5, 6, 7 and 8.
CorpCodes == {"", "00593", "005930", "0059300", "00126380"}

\* The slider of display_korean_stock_info gives 2015..2024.
Years == {2015, 2023}

\* report_types of display_korean_stock_info.
ReportCodes == {"11011", "11012", "11013", "11014"}

ApiKeys == {None, "test-key"}

Statuses == {"000", "013", "020"}

Messages == {"OK", "No data found.", "Unregistered key."}

DividendRow ==
    [se |-> "dividend per share", stock_knd |-> "common", thstrm |-> "1,444",
     frmtrm |-> "1,416", lwfr |-> "2,994", thstrm_dd |-> "2024-04-19",
     frmtrm_dd |-> "2023-04-14", lwfr_dd |-> "2022-04-15"]

OptionalField(k, values) == {EmptyObj} \cup {k :> v : v \in values}

DividendBodies ==
    {s @@ m @@ l : s \in OptionalField("status", Statuses),
                   m \in OptionalField("message", Messages),
                   l \in OptionalField("list", {<<>>, <<DividendRow>>})}

DividendResponses ==
    TransportFailures \cup {JsonArray} \cup {JsonObject(b) : b \in DividendBodies}

----------------------------------------------------------------------------
(* get_korean_stock_dividend: the function *)

\* column_mapping, lines 100-108; the Korean labels in ASCII.
DividendColumnMapping ==
    [thstrm |-> "dang-gi", frmtrm |-> "jeon-gi", lwfr |-> "jeonjeon-gi",
     stock_knd |-> "jusik jongryu", thstrm_dd |-> "dang-gi baedang-il",
     frmtrm_dd |-> "jeon-gi baedang-il", lwfr_dd |-> "jeonjeon-gi baedang-il"]

\* Line 94, "DART API 오류: ".
DartErrorPrefix == "DART API error: "

\* Line 97, "데이터가 없습니다.".
DividendNoDataMessage == "No data."

\* Line 113, "배당 정보 조회 실패: ".
DividendFailedPrefix == "dividend lookup failed: "

\* Lines 81-86.
DividendParams(corp_code, year, reprt_code) ==
    [crtfc_key |-> DART_API_KEY, corp_code |-> corp_code,
     bsns_year |-> year, reprt_code |-> reprt_code]

\* A variant that also takes status "013" (no data found) for a success.
ProviderStatusOkOrNoData(body) == Get(body, "status") \in {"000", "013"}

\* The condition of line 93, negated: the provider reports success.
ProviderStatusOk(body) == Get(body, "status") = "000"

\* Lines 88-113 from the response on: the pair (data, error) returned.
DividendResult(w) ==
    IF w \in TransportFailures
    THEN <<NoData, DividendFailedPrefix \o w.kind>>
    ELSE IF w = JsonArray
    THEN <<NoData, DividendFailedPrefix \o "AttributeError">>
    ELSE IF ~ProviderStatusOk(w.body)
    THEN <<NoData, DartErrorPrefix \o Str(Get(w.body, "message"))>>
    ELSE IF NotGetList(w.body, "list")
    THEN <<DataFrame(<<>>), DividendNoDataMessage>>
    ELSE <<DataFrame(Rename(DividendColumnMapping, w.body["list"])), None>>

\* Lines 293-297 and 315-319: the branch the caller takes on (data, error).
DisplayBranch(d, e) ==
    IF Truthy(e) THEN "st.error"
    ELSE IF d.kind = "None" THEN "AttributeError"
    ELSE IF ~IsEmpty(d) THEN "render"
    ELSE "nothing"

----------------------------------------------------------------------------
(* get_korean_etf_distribution: inputs and provider responses *)

KrxUrl == "http://data.krx.co.kr/comm/bldAttendant/getJsonData.cmd"

EtfCodes == {"KR7069500007"}

\* A string is a sequence of characters here, so that str.replace and
\* pd.to_numeric can be modelled by what they do to the characters.
Digits == {"0", "1", "2", "3", "4", "5", "6", "7", "8", "9"}

DigitValue ==
    ("0" :> 0) @@ ("1" :> 1) @@ ("2" :> 2) @@ ("3" :> 3) @@ ("4" :> 4) @@
    ("5" :> 5) @@ ("6" :> 6) @@ ("7" :> 7) @@ ("8" :> 8) @@ ("9" :> 9)

\* "1,234,567", "N/A", "350", "-", "1,5" and "".
AmountStrings ==
    <<<<"1", ",", "2", "3", "4", ",", "5", "6", "7">>,
      <<"N", "/", "A">>,
      <<"3", "5", "0">>,
      <<"-">>,
      <<"1", ",", "5">>,
      <<>>>>

\* The three amounts of a row: every string occurs in every column.
AmountTriples ==
    {<<AmountStrings[i], AmountStrings[(i % Len(AmountStrings)) + 1],
       AmountStrings[((i + 1) % Len(AmountStrings)) + 1]>> :
        i \in 1..Len(AmountStrings)}

\* Row i of an `output` array: its amounts are free, its other fields are
\* fixed and differ from row to row.
DistributionRow(i, amounts) ==
    [ETF_NM |-> "KODEX 200", BAS_DD |-> "2024/0" \o ToString(i) \o "/28",
     PAY_DD |-> "2024/0" \o ToString(i + 1) \o "/03",
     CAS_DSB |-> amounts[1], STK_DSB |-> amounts[2], TOT_DSB |-> amounts[3]]

DistributionRows(n) ==
    {[i \in 1..n |-> DistributionRow(i, a[i])] : a \in [1..n -> AmountTriples]}

DistributionBodies ==
    {EmptyObj} \cup
    {"output" :> rows : rows \in UNION {DistributionRows(n) : n \in 0..MaxRows}}

DistributionResponses ==
    TransportFailures \cup {JsonObject(b) : b \in DistributionBodies}

----------------------------------------------------------------------------
(* get_korean_etf_distribution: the function *)

\* column_mapping, lines 139-146; the Korean labels in ASCII.
DistributionColumnMapping ==
    [ETF_NM |-> "ETF-myeong", BAS_DD |-> "gijun-il", PAY_DD |-> "jigeub-il",
     CAS_DSB |-> "hyeongeum-bunbaegeum", STK_DSB |-> "jusik-bunbaegeum",
     TOT_DSB |-> "chong-bunbaegeum"]

\* The columns of the loop of line 150.
AmountColumns ==
    {"hyeongeum-bunbaegeum", "jusik-bunbaegeum", "chong-bunbaegeum"}

\* Line 136, "해당 기간의 분배금 정보가 없습니다.".
DistributionNoDataMessage == "No distributions in the period."

\* Line 156, "분배금 정보 조회 실패: ".
DistributionFailedPrefix == "distribution lookup failed: "

\* A numeric cell of a DataFrame: a number, or NaN.
Num(v) == [nan |-> FALSE, val |-> v]
NaN == [nan |-> TRUE, val |-> 0]

RECURSIVE StrReplaceFirstComma(_)
\* A variant that removes the first occurrence only, as replace(',', '', 1).
StrReplaceFirstComma(s) ==
    IF s = <<>> THEN s
    ELSE IF Head(s) = "," THEN Tail(s)
    ELSE <<Head(s)>> \o StrReplaceFirstComma(Tail(s))

\* Series.str.replace(',', ''): every occurrence is removed.
StrReplaceComma(s) == SelectSeq(s, LAMBDA c : c # ",")

RECURSIVE Decimal(_)
Decimal(s) ==
    IF s = <<>> THEN 0
    ELSE 10 * Decimal(SubSeq(s, 1, Len(s) - 1)) + DigitValue[s[Len(s)]]

AllDigits(s) == s # <<>> /\ \A i \in 1..Len(s) : s[i] \in Digits

\* pd.to_numeric(..., errors='coerce') on one string of the characters used
\* here: an optional sign and digits parse, anything else becomes NaN.
ToNumericCoerce(s) ==
    IF AllDigits(s) THEN Num(Decimal(s))
    ELSE IF s # <<>> /\ Head(s) = "-" /\ AllDigits(Tail(s)) THEN Num(0 - Decimal(Tail(s)))
    ELSE NaN

\* Lines 150-151, row by row.
ConvertAmounts(rows) ==
    [i \in 1..Len(rows) |->
        [c \in DOMAIN rows[i] |->
            IF c \in AmountColumns THEN ToNumericCoerce(StrReplaceComma(rows[i][c]))
            ELSE rows[i][c]]]

\* Lines 123-129; strftime('%Y%m%d') of the two dates.
DistributionParams(code, start_date, end_date) ==
    [bld |-> "dbms/MDC/STAT/standard/MDCSTAT04701", searchType |-> "1",
     isuCd |-> code, strtDd |-> start_date, endDd |-> end_date]

\* Lines 131-156 from the response on: the pair (data, error) returned.
DistributionResult(w) ==
    IF w \in TransportFailures
    THEN <<NoData, DistributionFailedPrefix \o w.kind>>
    ELSE IF NotGetList(w.body, "output")
    THEN <<DataFrame(<<>>), DistributionNoDataMessage>>
    ELSE <<DataFrame(ConvertAmounts(Rename(DistributionColumnMapping, w.body["output"]))),
           None>>

----------------------------------------------------------------------------
(* The client flows, one script run after another *)

NoArgs == [none |-> TRUE]

ClientInit ==
    /\ pc = "main"
    /\ fn = "none"
    /\ args = NoArgs
    /\ request = NoRequest
    /\ wire = Pending
    /\ getCalls = 0
    /\ postCalls = 0
    /\ callsAtEntry = 0
    /\ data = NoData
    /\ error = None
    /\ shown = "none"
    /\ runs = 0

\* display_korean_stock_info calls get_korean_stock_dividend (line 292), which
\* runs to its requests.get (line 89).
CallStockDividend(corp_code, year, reprt_code) ==
    /\ pc = "main"
    /\ runs < MaxRuns
    /\ runs' = runs + 1
    /\ fn' = "get_korean_stock_dividend"
    /\ args' = [corp_code |-> corp_code, year |-> year, reprt_code |-> reprt_code]
    /\ callsAtEntry' = getCalls + postCalls
    /\ request' = RequestsGet(DividendUrl, DividendParams(corp_code, year, reprt_code))
    /\ getCalls' = getCalls + 1
    /\ wire' = Pending
    /\ pc' = "awaiting"
    /\ UNCHANGED <<DART_API_KEY, postCalls, data, error, shown, dirVars>>

\* display_korean_etf_info calls get_korean_etf_distribution (line 314), which
\* runs to its requests.post (line 131).
CallEtfDistribution(code) ==
    /\ pc = "main"
    /\ runs < MaxRuns
    /\ runs' = runs + 1
    /\ fn' = "get_korean_etf_distribution"
    /\ args' = [code |-> code, start_date |-> "20240101", end_date |-> "20241231"]
    /\ callsAtEntry' = getCalls + postCalls
    /\ request' = RequestsPost(KrxUrl, DistributionParams(code, "20240101", "20241231"))
    /\ postCalls' = postCalls + 1
    /\ wire' = Pending
    /\ pc' = "awaiting"
    /\ UNCHANGED <<DART_API_KEY, getCalls, data, error, shown, dirVars>>

\* The provider answers the request that is out.
ProviderResponds(w) ==
    /\ pc = "awaiting"
    /\ wire = Pending
    /\ wire' = w
    /\ pc' = "responded"
    /\ UNCHANGED <<DART_API_KEY, fn, args, request, getCalls, postCalls,
                   callsAtEntry, data, error, shown, runs, dirVars>>

\* The provider never answers it. The request was made with timeout=None, so
\* nothing ends the wait: no action of the client is enabled from here on.
ProviderStaysSilent ==
    /\ pc = "awaiting"
    /\ wire = Pending
    /\ wire' = Silent
    /\ UNCHANGED <<DART_API_KEY, pc, fn, args, request, getCalls, postCalls,
                   callsAtEntry, data, error, shown, runs, dirVars>>

\* get_korean_stock_dividend runs from the response to its return.
StockDividendReturns ==
    /\ pc = "responded"
    /\ fn = "get_korean_stock_dividend"
    /\ data' = DividendResult(wire)[1]
    /\ error' = DividendResult(wire)[2]
    /\ pc' = "returned"
    /\ UNCHANGED <<DART_API_KEY, fn, args, request, wire, getCalls, postCalls,
                   callsAtEntry, shown, runs, dirVars>>

\* get_korean_etf_distribution runs from the response to its return.
EtfDistributionReturns ==
    /\ pc = "responded"
    /\ fn = "get_korean_etf_distribution"
    /\ data' = DistributionResult(wire)[1]
    /\ error' = DistributionResult(wire)[2]
    /\ pc' = "returned"
    /\ UNCHANGED <<DART_API_KEY, fn, args, request, wire, getCalls, postCalls,
                   callsAtEntry, shown, runs, dirVars>>

\* display_korean_stock_info / display_korean_etf_info act on (data, error).
Display ==
    /\ pc = "returned"
    /\ shown' = DisplayBranch(data, error)
    /\ pc' = "shown"
    /\ UNCHANGED <<DART_API_KEY, fn, args, request, wire, getCalls, postCalls,
                   callsAtEntry, data, error, runs, dirVars>>

\* A widget changes and streamlit runs the script again from the top.
Rerun ==
    /\ pc = "shown"
    /\ pc' = "main"
    /\ fn' = "none"
    /\ args' = NoArgs
    /\ request' = NoRequest
    /\ wire' = Pending
    /\ data' = NoData
    /\ error' = None
    /\ shown' = "none"
    /\ UNCHANGED <<DART_API_KEY, getCalls, postCalls, callsAtEntry, runs, dirVars>>

----------------------------------------------------------------------------
(* get_dart_corp_codes and get_krx_etf_list: provider responses *)

\* The numbers of entries a provider's directory is tried with.
DirectorySizes == {0, 1, 2}

\* "005930", " " and "".
StockCodeTexts == {<<"0", "0", "5", "9", "3", "0">>, <<" ">>, <<>>}

\* A <list> element of CORPCODE.xml without a <stock_code> child.
Unlisted(i) ==
    [corp_code |-> "0012638" \o ToString(i), corp_name |-> "corp-" \o ToString(i)]

\* The <list> elements that can stand at place i.
Companies(i) ==
    {Unlisted(i)} \cup {Unlisted(i) @@ ("stock_code" :> c) : c \in StockCodeTexts}

Archives ==
    UNION {{a \in [1..n -> UNION {Companies(i) : i \in 1..n}] :
                \A i \in 1..n : a[i] \in Companies(i)} : n \in DirectorySizes}

\* requests.get or raise_for_status raises; the body is no zip archive; the
\* archive holds no CORPCODE.xml; the XML does not parse.
DartFailures ==
    {[kind |-> k] : k \in {"ConnectionError", "HTTPError", "BadZipFile",
                           "KeyError", "ParseError"}}

DartResponses == DartFailures \cup {[kind |-> "zip", companies |-> a] : a \in Archives}

\* "KR7069500007" and " ".
IsuCodeTexts == {<<"K", "R", "7", "0", "6", "9", "5", "0", "0", "0", "0", "7">>, <<" ">>}

EtfEntry(i, isu) ==
    [ISU_SRT_CD |-> "06950" \o ToString(i), ISU_NM |-> "etf-" \o ToString(i),
     ISU_CD |-> isu, MKT_NM |-> "KOSPI"]

EtfOutputs ==
    UNION {{[i \in 1..n |-> EtfEntry(i, c[i])] : c \in [1..n -> IsuCodeTexts]} :
                n \in DirectorySizes}

KrxListResponses ==
    TransportFailures \cup {JsonObject(EmptyObj)}
        \cup {JsonObject("output" :> o) : o \in EtfOutputs}

----------------------------------------------------------------------------
(* get_dart_corp_codes and get_krx_etf_list: the function bodies *)

\* What a function body hands to st.cache_data: the DataFrame it returns, and
\* whether it came from the except branch (lines 47-49, 74-76).
Returned(df) == [df |-> df, failed |-> FALSE]
Failed == [df |-> DataFrame(<<>>), failed |-> TRUE]

\* company.findtext(tag): the text, or None when there is no such child.
FindText(company, tag) == Get(company, tag)

RECURSIVE Strip(_)
\* str.strip() for the one whitespace character used here.
Strip(s) ==
    IF s = <<>> THEN s
    ELSE IF Head(s) = " " THEN Strip(Tail(s))
    ELSE IF s[Len(s)] = " " THEN Strip(SubSeq(s, 1, Len(s) - 1))
    ELSE s

\* Line 39: `if stock_code and stock_code.strip()`.
IsListed(company) ==
    LET stock_code == FindText(company, "stock_code")
    IN  stock_code # None /\ stock_code # <<>> /\ Strip(stock_code) # <<>>

\* Lines 40-44.
CorpEntry(company) ==
    [corp_code |-> FindText(company, "corp_code"),
     corp_name |-> FindText(company, "corp_name"),
     stock_code |-> FindText(company, "stock_code")]

RECURSIVE CorpEntries(_)
\* The loop of lines 34-44.
CorpEntries(companies) ==
    IF companies = <<>> THEN <<>>
    ELSE (IF IsListed(Head(companies)) THEN <<CorpEntry(Head(companies))>> ELSE <<>>)
            \o CorpEntries(Tail(companies))

\* Lines 25-49 from the response on.
DartCorpCodes(w) ==
    IF w \in DartFailures THEN Failed
    ELSE Returned(DataFrame(CorpEntries(w.companies)))

\* Lines 70-71: the three columns kept, under their new names (in ASCII).
EtfListEntry(row) ==
    [jongmok_kodeu |-> row.ISU_SRT_CD, jongmok_myeong |-> row.ISU_NM,
     pyojun_kodeu |-> row.ISU_CD]

\* Lines 65-76 from the response on. data['output'] raises KeyError when the
\* key is absent, and df[[...]] raises KeyError on a frame without columns.
KrxEtfList(w) ==
    IF w \in TransportFailures THEN Failed
    ELSE IF "output" \notin DOMAIN w.body THEN Failed
    ELSE IF w.body["output"] = <<>> THEN Failed
    ELSE Returned(DataFrame([i \in 1..Len(w.body["output"]) |->
                                EtfListEntry(w.body["output"][i])]))

----------------------------------------------------------------------------
(* st.cache_data(ttl=3600), lines 19 and 51 *)

Sessions == {"s1", "s2"}

CachedFunctions == {"get_dart_corp_codes", "get_krx_etf_list"}

NoSession == "none"

\* ttl=3600, in seconds.
TTL == 3600

\* The clock moves in steps of two thirds of the ttl: a value is live at ages
\* 0 and 2400 and has expired at 4800.
TickSeconds == (2 * TTL) \div 3

NoEntry == [present |-> FALSE, value |-> DataFrame(<<>>), age |-> 0, failed |-> FALSE]

\* A cached value can be read until its age reaches the ttl.
Live(entry) == entry.present /\ entry.age < TTL

Responses(f) == IF f = "get_dart_corp_codes" THEN DartResponses ELSE KrxListResponses

Body(f, w) == IF f = "get_dart_corp_codes" THEN DartCorpCodes(w) ELSE KrxEtfList(w)

\* A variant that does not read the cache again once it holds the lock.
NoRecheckUnderLock(f) == FALSE

\* Under the compute lock the cache is read again before the function runs.
RecheckUnderLock(f) == Live(cache[f])

\* What st.cache_data stores for a call that ended with `r`: a function that
\* returns normally has its return value stored, whatever it is.
StoredEntry(r) == [present |-> TRUE, value |-> r.df, age |-> 0, failed |-> r.failed]

DirInit ==
    /\ dpc = [s \in Sessions |-> "idle"]
    /\ dfn = [s \in Sessions |-> "none"]
    /\ dresult = [s \in Sessions |-> DataFrame(<<>>)]
    /\ cache = [f \in CachedFunctions |-> NoEntry]
    /\ lock = [f \in CachedFunctions |-> NoSession]
    /\ fetches = [f \in CachedFunctions |-> 0]
    /\ stores = [f \in CachedFunctions |-> 0]
    /\ expiries = [f \in CachedFunctions |-> 0]
    /\ sawStores = [s \in Sessions |-> 0]
    /\ sawValid = [s \in Sessions |-> FALSE]
    /\ dcalls = 0

\* A session's script calls the cached function: the cache is read, and a live
\* value is returned at once.
CallCached(s, f) ==
    /\ dpc[s] = "idle"
    /\ dcalls < MaxDirCalls
    /\ dcalls' = dcalls + 1
    /\ dfn' = [dfn EXCEPT ![s] = f]
    /\ sawStores' = [sawStores EXCEPT ![s] = stores[f]]
    /\ sawValid' = [sawValid EXCEPT ![s] = Live(cache[f])]
    /\ IF Live(cache[f])
       THEN /\ dresult' = [dresult EXCEPT ![s] = cache[f].value]
            /\ dpc' = [dpc EXCEPT ![s] = "done"]
       ELSE /\ dpc' = [dpc EXCEPT ![s] = "miss"]
            /\ UNCHANGED dresult
    /\ UNCHANGED <<DART_API_KEY, clientVars, cache, lock, fetches, stores, expiries>>

\* After a miss the session takes the function's compute lock and reads the
\* cache again: a value stored meanwhile is returned, otherwise the function
\* body starts and runs to its transport call.
AcquireAndCompute(s) ==
    /\ dpc[s] = "miss"
    /\ lock[dfn[s]] = NoSession
    /\ IF RecheckUnderLock(dfn[s])
       THEN /\ dresult' = [dresult EXCEPT ![s] = cache[dfn[s]].value]
            /\ dpc' = [dpc EXCEPT ![s] = "done"]
            /\ UNCHANGED <<lock, fetches>>
       ELSE /\ lock' = [lock EXCEPT ![dfn[s]] = s]
            /\ fetches' = [fetches EXCEPT ![dfn[s]] = @ + 1]
            /\ dpc' = [dpc EXCEPT ![s] = "fetching"]
            /\ UNCHANGED dresult
    /\ UNCHANGED <<DART_API_KEY, clientVars, dfn, cache, stores, expiries,
                   sawStores, sawValid, dcalls>>

\* The transport call ends with `w`, the function body runs to its return, and
\* st.cache_data stores what it returned and releases the lock.
FetchCompletes(s, w) ==
    /\ dpc[s] = "fetching"
    /\ LET r == Body(dfn[s], w)
       IN  /\ cache' = [cache EXCEPT ![dfn[s]] = StoredEntry(r)]
           /\ dresult' = [dresult EXCEPT ![s] = r.df]
    /\ stores' = [stores EXCEPT ![dfn[s]] = @ + 1]
    /\ lock' = [lock EXCEPT ![dfn[s]] = NoSession]
    /\ dpc' = [dpc EXCEPT ![s] = "done"]
    /\ UNCHANGED <<DART_API_KEY, clientVars, dfn, fetches, expiries,
                   sawStores, sawValid, dcalls>>

\* The session's script run ends; its next run starts from the top.
ScriptEnds(s) ==
    /\ dpc[s] = "done"
    /\ dpc' = [dpc EXCEPT ![s] = "idle"]
    /\ dfn' = [dfn EXCEPT ![s] = "none"]
    /\ dresult' = [dresult EXCEPT ![s] = DataFrame(<<>>)]
    /\ sawStores' = [sawStores EXCEPT ![s] = 0]
    /\ sawValid' = [sawValid EXCEPT ![s] = FALSE]
    /\ UNCHANGED <<DART_API_KEY, clientVars, cache, lock, fetches, stores,
                   expiries, dcalls>>

Aged(entry) ==
    IF Live(entry) THEN [entry EXCEPT !.age = @ + TickSeconds] ELSE entry

\* Time passes: every live value ages, and one that reaches the ttl expires.
Tick ==
    /\ \E f \in CachedFunctions : Live(cache[f])
    /\ cache' = [f \in CachedFunctions |-> Aged(cache[f])]
    /\ expiries' = [f \in CachedFunctions |->
                        IF Live(cache[f]) /\ ~Live(Aged(cache[f]))
                        THEN expiries[f] + 1 ELSE expiries[f]]
    /\ UNCHANGED <<DART_API_KEY, clientVars, dpc, dfn, dresult, lock, fetches,
                   stores, sawStores, sawValid, dcalls>>

----------------------------------------------------------------------------
(* The specifications *)

Init ==
    /\ DART_API_KEY \in ApiKeys
    /\ ClientInit
    /\ DirInit

Next ==
    \/ \E c \in CorpCodes, y \in Years, r \in ReportCodes : CallStockDividend(c, y, r)
    \/ \E c \in EtfCodes : CallEtfDistribution(c)
    \/ \E w \in DividendResponses :
            fn = "get_korean_stock_dividend" /\ ProviderResponds(w)
    \/ \E w \in DistributionResponses :
            fn = "get_korean_etf_distribution" /\ ProviderResponds(w)
    \/ ProviderStaysSilent
    \/ StockDividendReturns
    \/ EtfDistributionReturns
    \/ Display
    \/ Rerun

Spec == Init /\ [][Next]_vars

DirNext ==
    \/ \E s \in Sessions, f \in CachedFunctions : CallCached(s, f)
    \/ \E s \in Sessions : AcquireAndCompute(s)
    \/ \E s \in Sessions : \E w \in Responses(dfn[s]) : FetchCompletes(s, w)
    \/ \E s \in Sessions : ScriptEnds(s)
    \/ Tick

\* The directory lookups are checked with the credential set.
DirSpecInit == Init /\ DART_API_KEY = "test-key"

SpecDir == DirSpecInit /\ [][DirNext]_vars

----------------------------------------------------------------------------
(* Properties of get_korean_stock_dividend and its caller (Spec) *)

InStockCall == fn = "get_korean_stock_dividend"
InEtfCall == fn = "get_korean_etf_distribution"
HasReturned == pc \in {"returned", "shown"}

\* The error text is one of the client's prefixes followed by `text`.
Carries(e, text) ==
    \E prefix \in {DartErrorPrefix, DividendFailedPrefix} : e = prefix \o text

\* C1: when the transport succeeds and the JSON body's provider status is not
\* "000", get_korean_stock_dividend returns a failure: data is None, the error
\* is non-empty and carries the provider's message, and no rows are returned.
C1_ProviderFailureIsError ==
    /\ (InStockCall /\ HasReturned /\ wire.kind = "json_object"
            /\ Get(wire.body, "status") # "000")
        => /\ data = NoData
           /\ Truthy(error)
           /\ Get(wire.body, "message") # None
                => Carries(error, Get(wire.body, "message"))
    \* A JSON body that is no object has no status "000" either.
    /\ (InStockCall /\ HasReturned /\ wire = JsonArray)
        => (data = NoData /\ Truthy(error))

C1_Witness ==
    /\ InStockCall /\ pc = "returned" /\ wire.kind = "json_object"
    /\ wire.body = [status |-> "020", message |-> "Unregistered key.",
                    list |-> <<DividendRow>>]
    /\ data = NoData
    /\ error = "DART API error: Unregistered key."

\* The outcome of a success response with an empty list.
EmptyResultOutcome ==
    DividendResult(JsonObject([status |-> "000", message |-> "OK", list |-> <<>>]))

\* C2: a response with status "013" (no data found) yields the outcome of a
\* success response with an empty list, and every other status that is not
\* "000" yields the provider error carrying the provider's message.
C2_NoDataStatusIsEmptyResult ==
    (InStockCall /\ HasReturned /\ wire.kind = "json_object")
    => /\ Get(wire.body, "status") = "013" => <<data, error>> = EmptyResultOutcome
       /\ Get(wire.body, "status") \notin {"000", "013"}
            => /\ data = NoData
               /\ error = DartErrorPrefix \o Str(Get(wire.body, "message"))

\* The response is well formed and holds zero rows.
ZeroRows ==
    /\ wire.kind = "json_object"
    /\ \/ InStockCall /\ Get(wire.body, "status") = "000" /\ NotGetList(wire.body, "list")
       \/ InEtfCall /\ NotGetList(wire.body, "output")

\* C3: a well-formed response with zero rows is reported as no data, not as an
\* error: the result differs from a fetch failure's, and the caller does not
\* take its error branch for it.
C3_EmptyIsNotAnError ==
    (pc = "shown" /\ ZeroRows) => (data # NoData /\ shown # "st.error")

\* C4: for a company code whose length is not 6, get_korean_stock_dividend
\* returns an error and the call makes no transport call.
C4_WrongLengthRejected ==
    (InStockCall /\ Len(args.corp_code) # 6)
    => /\ getCalls + postCalls = callsAtEntry
       /\ HasReturned => (data = NoData /\ Truthy(error))

\* C9: while the credential is unset no transport request is issued: no
\* requests.get call has been made and none is out.
C9_NoRequestWithoutCredential ==
    DART_API_KEY = None => (getCalls = 0 /\ request = NoRequest)

\* C10: every transport call carries a timeout, and a call whose provider
\* never answers can still go on to return.
C10_TransportBounded ==
    /\ request # NoRequest => request.timeout # None
    /\ wire = Silent => ENABLED (StockDividendReturns \/ EtfDistributionReturns)

----------------------------------------------------------------------------
(* Properties of get_korean_etf_distribution (Spec) *)

RECURSIVE IsThousandsSeparated(_)
\* One to three digits, then groups of a comma and three digits.
IsThousandsSeparated(s) ==
    IF Len(s) <= 3 THEN s # <<>> /\ \A i \in 1..Len(s) : s[i] \in Digits
    ELSE /\ s[Len(s) - 3] = ","
         /\ \A i \in (Len(s) - 2)..Len(s) : s[i] \in Digits
         /\ IsThousandsSeparated(SubSeq(s, 1, Len(s) - 4))

RECURSIVE ValueFrom(_, _)
\* The number written by the digits of s, read from the left, separators skipped.
ValueFrom(s, acc) ==
    IF s = <<>> THEN acc
    ELSE IF Head(s) = "," THEN ValueFrom(Tail(s), acc)
    ELSE ValueFrom(Tail(s), 10 * acc + DigitValue[Head(s)])

HasNoDigit(s) == \A i \in 1..Len(s) : s[i] \notin Digits

AmountFields ==
    {<<"CAS_DSB", "hyeongeum-bunbaegeum">>, <<"STK_DSB", "jusik-bunbaegeum">>,
     <<"TOT_DSB", "chong-bunbaegeum">>}

OtherFields ==
    {<<"ETF_NM", "ETF-myeong">>, <<"BAS_DD", "gijun-il">>, <<"PAY_DD", "jigeub-il">>}

\* C7: for a response with rows, every amount that is a thousands-separated
\* digit string becomes the number without the separators ("1,234,567" gives
\* 1234567), every amount without a digit ("N/A") becomes null, the rows keep
\* their number and their other fields, and the call returns them without error.
C7_AmountsCoerced ==
    (InEtfCall /\ HasReturned /\ wire.kind = "json_object"
        /\ ~NotGetList(wire.body, "output"))
    => LET out == wire.body["output"]
       IN  /\ error = None
           /\ data.kind = "DataFrame"
           /\ Len(data.rows) = Len(out)
           /\ \A i \in 1..Len(out) :
                /\ DOMAIN data.rows[i] = {f[2] : f \in AmountFields \cup OtherFields}
                /\ \A f \in OtherFields : data.rows[i][f[2]] = out[i][f[1]]
                /\ \A f \in AmountFields :
                     LET s == out[i][f[1]]
                         v == data.rows[i][f[2]]
                     IN  /\ IsThousandsSeparated(s) => v = Num(ValueFrom(s, 0))
                         /\ HasNoDigit(s) => v = NaN
                         /\ s = <<"1", ",", "2", "3", "4", ",", "5", "6", "7">>
                                => v = Num(1234567)

C7_Witness ==
    /\ InEtfCall /\ pc = "returned" /\ error = None
    /\ Len(data.rows) = 2
    /\ wire.body["output"][2].CAS_DSB = <<"1", ",", "2", "3", "4", ",", "5", "6", "7">>
    /\ wire.body["output"][2].STK_DSB = <<"N", "/", "A">>
    /\ data.rows[2]["hyeongeum-bunbaegeum"] = Num(1234567)
    /\ data.rows[2]["jusik-bunbaegeum"] = NaN
    /\ data.rows[2]["chong-bunbaegeum"] = Num(350)
    /\ data.rows[2]["gijun-il"] = "2024/02/28"

----------------------------------------------------------------------------
(* Properties of the cached directory lookups (SpecDir) *)

Fetching(f) == {s \in Sessions : dpc[s] = "fetching" /\ dfn[s] = f}
DoneWith(f) == {s \in Sessions : dpc[s] = "done" /\ dfn[s] = f}

C6_FailureNotCached ==
    \A f \in CachedFunctions : cache[f].present => ~cache[f].failed

\* Some character of the text is not whitespace.
NonBlank(text) == \E i \in 1..Len(text) : text[i] # " "

CodeOf(f, entry) ==
    IF f = "get_dart_corp_codes" THEN entry.stock_code ELSE entry.pyojun_kodeu

\* C8: no entry of a directory returned by get_dart_corp_codes or
\* get_krx_etf_list has a blank code.
C8_NoBlankCode ==
    \A s \in Sessions :
        dpc[s] = "done" =>
            \A i \in 1..Len(dresult[s].rows) : NonBlank(CodeOf(dfn[s], dresult[s].rows[i]))

====
